---- MODULE Spec2Model ----
(***************************************************************************)
(* A model of the two components of SpuCo kept under src/:                 *)
(*   - SpuCoMNIST (src/src/spuco/datasets/spuco_mnist.py): validate_classes,*)
(*     load_data, create_background, compute_mask;                         *)
(*   - EIIL (src/src/spuco/group_inference/eiil.py): infer_groups.         *)
(* One behaviour is one call of one entry point (comp), run to its end.    *)
(* Indices stored in lists are the code's own (0-based); TLA+ sequences    *)
(* are 1-based, so the element with code index i sits at position i + 1.   *)
(* Floating-point quantities are fixed-point integers: the correlation     *)
(* strength in tenths, pixel and colour values in 1/255, sigmoid in 1/1000.*)
(***************************************************************************)
EXTENDS Integers, Sequences, FiniteSets, TLC

VARIABLES
  comp,              \* entry point of this run: "validate", "load", "background", "eiil"
  pc,                \* position inside the entry point
  err,               \* the exception that ended the call, or "none"
  classes,           \* self.classes / the argument of validate_classes
  result,            \* return value of the validate_classes call, "none" before it
  train,             \* self.train
  strength,          \* self.spurious_correlation_strength, in tenths
  difficulty,        \* self.spurious_feature_difficulty / create_background's argument
  mnist,             \* raw labels of the base source, in order (never changed)
  labels,            \* self.data.labels
  X,                 \* self.data.X, each image read at the Probes entries
  kept,              \* load_data's local kept
  partition,         \* self.partition: keys in insertion order, lists[n] the list of keys[n]
  spurious,          \* self.spurious
  grp,               \* position in partition.keys() of the group processed next
  spurious_or_not,   \* spurious_or_not[n]: the Bernoulli sample drawn for group keys[n] (train)
  applied,           \* index -> the background tensor composited onto that sample (Probes)
  hex_code,          \* create_background's colour argument (an RGB triple)
  mask,              \* create_background's local mask over the canvas, "none" if not built
  background,        \* create_background's return value over the whole canvas
  elabels,           \* EIIL.labels
  finite,            \* whether EIIL.logits holds only finite values
  num_steps,         \* EIIL.num_steps
  step,              \* iterations of the optimisation loop done
  env_w,             \* the learnable per-sample weights
  group_labels,      \* infer_groups' local group_labels
  group_partition    \* infer_groups' return value

vars == <<comp, pc, err, classes, result, train, strength, difficulty, mnist, labels,
          X, kept, partition, spurious, grp, spurious_or_not,
          applied, hex_code, mask, background, elabels, finite, num_steps, step,
          env_w, group_labels, group_partition>>

loadVars == <<train, strength, mnist, labels, X, kept, partition, spurious, grp,
              spurious_or_not, applied>>
bgVars == <<hex_code, mask, background>>
eiilVars == <<elabels, finite, num_steps, step, env_w, group_labels, group_partition>>

----------------------------------------------------------------------------
(* Bounds of the model. *)
MaxClasses == 3      \* latent classes in a validate_classes argument
MaxElems == 3        \* raw labels listed in a validate_classes argument, in total
MaxSamples == 3      \* samples of the base source
MaxN == 2            \* samples given to infer_groups
MaxSteps == 1        \* num_steps

(* Program constants. *)
MaxLabel == 9        \* validate_classes: x > 9
Canvas == 28         \* compute_mask: torch.zeros((3,28,28))
Channels == 3        \* compute_mask: torch.zeros((3,28,28))
MediumGrid == 4      \* MAGNITUDE_MEDIUM: product(range(4), range(4))
HardGrid == 2        \* MAGNITUDE_HARD: product(range(2), range(2))
EasyGrid == 7        \* VARIANCE_EASY: product(range(7), range(7))
VarMediumGrid == 14  \* VARIANCE_MEDIUM: product(range(14), range(14))
NumUnmask == 49      \* VARIANCE_MEDIUM / VARIANCE_HARD: randperm(...)[:49]
ReservedLabel == 1   \* infer_groups: self.labels==1
GroupShift == 2      \* infer_groups: += 2
Half == 500          \* infer_groups: > .5, in 1/1000
FullScale == 255     \* the value 1.0 of a pixel or colour component, in 1/255

----------------------------------------------------------------------------
(* Helpers on sequences. *)
Range(s) == {s[n] : n \in DOMAIN s}

SeqsUpTo(S, n) == UNION {[1..m -> S] : m \in 0..n}

RECURSIVE SumSeq(_)
SumSeq(s) == IF s = <<>> THEN 0 ELSE s[1] + SumSeq(Tail(s))

IndexPerms(n) == {p \in [1..n -> 1..n] : \A a, b \in 1..n : a # b => p[a] # p[b]}

----------------------------------------------------------------------------
(* SpuCoMNIST.validate_classes *)

\* set(latent_class)
ToSet(latent_class) == Range(latent_class)

\* x < 0 or x > 9, with the upper bound off by one
OutOfRangeLoose(x) == x < 0 \/ x > MaxLabel + 1

\* x < 0 or x > 9
OutOfRange(x) == x < 0 \/ x > MaxLabel

\* the loop over i, from i on: False at the first set with an element out of
\* range or meeting a later set, True when the loop ends
RECURSIVE ValidateFrom(_, _)
ValidateFrom(sets, i) ==
  IF i > Len(sets) THEN TRUE
  ELSE IF \E x \in sets[i] : OutOfRange(x) THEN FALSE
  ELSE IF \E j \in (i + 1)..Len(sets) : sets[i] \cap sets[j] # {} THEN FALSE
  ELSE ValidateFrom(sets, i + 1)

validate_classes(cls) == ValidateFrom([n \in DOMAIN cls |-> ToSet(cls[n])], 1)

\* the arguments tried: up to MaxClasses lists holding up to MaxElems values in all
ClassValues == {-1, 0, 5, 9, 10}

\* the list of classes with lengths lens[1], lens[2], ... cut from the values flat
ClassList(flat, lens) ==
  [c \in DOMAIN lens |->
     LET before == SumSeq(SubSeq(lens, 1, c - 1))
     IN  SubSeq(flat, before + 1, before + lens[c])]

----------------------------------------------------------------------------
(* Tensors.  A tensor of shape (3,28,28) is a function on entries <<ch, row, col>>; *)
(* an operator that builds one takes the set D of entries at which it is read.      *)

Entries == (0..(Channels - 1)) \X (0..(Canvas - 1)) \X (0..(Canvas - 1))

\* the points that tell the regions used by create_background apart
ProbePoints == {<<0, 0>>, <<3, 3>>, <<6, 6>>, <<13, 13>>, <<27, 27>>}

Probes == {<<ch, p[1], p[2]>> : ch \in 0..(Channels - 1), p \in ProbePoints}

\* list(itertools.product(range(a), range(b)))
Product(a, b) == [n \in 1..(a * b) |-> <<(n - 1) \div b, (n - 1) % b>>]

\* torch.randperm(n): the permutation t |-> stride * t + offset (mod n), stride coprime to n
RandPermAt(perm, n, t) == (perm.stride * t + perm.shift * NumUnmask) % n

PermStrides == {1}

RandShifts == {0, 1}

RandPerms == [stride : PermStrides, shift : RandShifts]

\* all_points[torch.randperm(len(all_points))[:49]], n = len(all_points)
RandomPoints(all_points, n, perm) ==
  [t \in 1..NumUnmask |-> all_points[RandPermAt(perm, n, t - 1) + 1]]

\* SpuCoMNIST.rgb_to_mnist_background
rgb_to_mnist_background(rgb, D) == [e \in D |-> rgb[e[1] + 1]]

\* compute_mask with the points written as 0 instead of 1 onto a mask of ones
compute_mask_inverted(unmask_points, D) ==
  [e \in D |-> IF <<e[2], e[3]>> \in Range(unmask_points) THEN 0 ELSE 1]

\* SpuCoMNIST.compute_mask: zeros, then mask[:, rows, cols] = 1.
compute_mask(unmask_points, D) ==
  [e \in D |-> IF <<e[2], e[3]>> \in Range(unmask_points) THEN 1 ELSE 0]

Difficulties == {"MAGNITUDE_EASY", "MAGNITUDE_MEDIUM", "MAGNITUDE_HARD",
                 "VARIANCE_EASY", "VARIANCE_MEDIUM", "VARIANCE_HARD"}

IsRandom(d) == d \in {"VARIANCE_MEDIUM", "VARIANCE_HARD"}

\* the random draws one create_background call makes
PermChoices(d) == IF IsRandom(d) THEN RandPerms ELSE {[stride |-> 1, shift |-> 0]}

\* unmask_points of create_background, per branch (none for MAGNITUDE_EASY)
UnmaskPoints(d, perm) ==
  CASE d = "MAGNITUDE_MEDIUM" -> Product(MediumGrid, MediumGrid)
    [] d = "MAGNITUDE_HARD" -> Product(HardGrid, HardGrid)
    [] d = "VARIANCE_EASY" -> Product(EasyGrid, EasyGrid)
    [] d = "VARIANCE_MEDIUM" ->
         RandomPoints(Product(VarMediumGrid, VarMediumGrid), VarMediumGrid * VarMediumGrid, perm)
    [] d = "VARIANCE_HARD" -> RandomPoints(Product(Canvas, Canvas), Canvas * Canvas, perm)

\* the local mask of create_background, "none" on the branch that builds none
MaskOf(d, perm, D) ==
  IF d = "MAGNITUDE_EASY" THEN "none" ELSE compute_mask(UnmaskPoints(d, perm), D)

\* background * mask
Times(a, b) == [e \in DOMAIN a |-> a[e] * b[e]]

\* SpuCoMNIST.create_background
create_background(d, rgb, perm, D) ==
  IF d = "MAGNITUDE_EASY" THEN rgb_to_mnist_background(rgb, D)
  ELSE Times(rgb_to_mnist_background(rgb, D), MaskOf(d, perm, D))

\* init_colors: the hsv colour map at i / k for i < k (S = V = 1, the six linear
\* segments of the hue circle), then black
Hsv(i, k) ==
  LET sector == ((6 * i) \div k) % 6
      f == (((6 * i) % k) * FullScale) \div k
  IN  CASE sector = 0 -> <<FullScale, f, 0>>
        [] sector = 1 -> <<FullScale - f, FullScale, 0>>
        [] sector = 2 -> <<0, FullScale, f>>
        [] sector = 3 -> <<0, FullScale - f, FullScale>>
        [] sector = 4 -> <<f, 0, FullScale>>
        [] sector = 5 -> <<FullScale, 0, FullScale - f>>

init_colors(k) == [n \in 1..(k + 1) |-> IF n <= k THEN Hsv(n - 1, k) ELSE <<0, 0, 0>>]

\* the colours init_colors gives for one, two or three classes
Palette == UNION {Range(init_colors(k)) : k \in 1..3}

\* a function written out as a table, entry by entry
RECURSIVE Table(_, _)
Table(f, D) ==
  IF D = {} THEN <<>>
  ELSE LET e == CHOOSE x \in D : TRUE
       IN  (e :> f[e]) @@ Table(f, D \ {e})

\* create_background(d, rgb) read at the probes, per random draw
ProbeBackground ==
  Table([d \in Difficulties |->
    Table([perm \in RandPerms |->
      Table([rgb \in Palette |-> Table(create_background(d, rgb, perm, Probes), Probes)],
            Palette)], RandPerms)], Difficulties)

\* (background * (X == 0)) + X, with the test on X dropped
CompositeOver(bg, x) == [e \in DOMAIN x |-> bg[e] + x[e]]

\* (background * (self.data.X[idx] == 0)) + self.data.X[idx]
Composite(bg, x) == [e \in DOMAIN x |-> bg[e] * (IF x[e] = 0 THEN 1 ELSE 0) + x[e]]

----------------------------------------------------------------------------
(* The base source: MNIST images made RGB by torch.cat([x, x, x]). *)

\* grey value of sample i at a point: a blank image, a digit over part of the
\* probes, an image with no zero pixel, in turn
Gray(i, p) ==
  CASE i % 3 = 0 -> 0
    [] i % 3 = 1 -> IF p = <<3, 3>> THEN 128 ELSE IF p = <<13, 13>> THEN FullScale ELSE 0
    [] i % 3 = 2 -> IF p = <<0, 0>> THEN 64 ELSE FullScale

SourceImage(i) == [e \in Probes |-> Gray(i, <<e[2], e[3]>>)]

SourceLabels == {0, 1}

\* the classes tried: two classes that leave digit 0 out (one of two digits, listed
\* out of order), three classes that swap digits 0 and 1, one class, overlapping
\* classes, a digit above 9
LoadClassSpecs ==
  { <<<<2, 1>>, <<3>>>>, <<<<1>>, <<0>>, <<3>>>>, <<<<0, 1, 2>>>>,
    <<<<0, 1>>, <<1, 2>>>>, <<<<0>>, <<10>>>> }

\* the difficulties tried in load_data: no mask, a fixed corner, random points
LoadDifficulties == {"MAGNITUDE_EASY", "MAGNITUDE_MEDIUM", "VARIANCE_HARD"}

\* -1.0 (the default), 0.0, 0.5, 1.0, 1.5
Strengths == {-10, 0, 5, 10, 15}

\* the strengths tried with train = False, where the value is not read
TestStrengths == {-10, 5, 15}

----------------------------------------------------------------------------
(* SpuCoMNIST.load_data *)

\* the loop "for class_idx, latent_class in enumerate(self.classes)" for sample i,
\* from class position c on; label is the value enumerate() bound for the sample
RECURSIVE RemapClasses(_, _, _, _, _)
RemapClasses(st, cls, i, label, c) ==
  IF c > Len(cls) THEN st
  ELSE IF label \in Range(cls[c])
       THEN RemapClasses([labels |-> [st.labels EXCEPT ![i + 1] = c - 1],
                          kept |-> Append(st.kept, i)], cls, i, label, c + 1)
       ELSE RemapClasses(st, cls, i, label, c + 1)

\* the loop "for i, label in enumerate(self.data.labels)", from sample i on
RECURSIVE RemapFrom(_, _, _)
RemapFrom(st, cls, i) ==
  IF i >= Len(st.labels) THEN st
  ELSE RemapFrom(RemapClasses(st, cls, i, st.labels[i + 1], 1), cls, i + 1)

\* [list[i] for i in range(len(kept))]
GatherPrefix(list, kp) == [n \in 1..Len(kp) |-> list[n]]

\* [list[i] for i in kept]
Gather(list, kp) == [n \in 1..Len(kp) |-> list[kp[n] + 1]]

\* position of key in keys, 0 when absent
KeyPos(keys, key) ==
  IF \E n \in DOMAIN keys : keys[n] = key
  THEN CHOOSE n \in DOMAIN keys : keys[n] = key
  ELSE 0

\* partition[label] = [i]
OverwriteIndex(list, i) == <<i>>

\* partition[label].append(i)
AppendIndex(list, i) == Append(list, i)

\* the partition loop from index i on: a new key gets an empty list, then the
\* index is appended to the key's list
RECURSIVE PartitionFrom(_, _, _)
PartitionFrom(ls, i, part) ==
  IF i >= Len(ls) THEN part
  ELSE LET l == ls[i + 1]
           p0 == IF KeyPos(part.keys, l) = 0
                 THEN [keys |-> Append(part.keys, l), lists |-> Append(part.lists, <<>>)]
                 ELSE part
           n == KeyPos(p0.keys, l)
       IN  PartitionFrom(ls, i + 1,
             [p0 EXCEPT !.lists[n] = AppendIndex(p0.lists[n], i)])

EmptyPartition == [keys |-> <<>>, lists |-> <<>>]

\* "Partition indices by new labels"
PartitionBy(ls) == PartitionFrom(ls, 0, EmptyPartition)

\* the check made on every split
StrengthCheckedAlways(tr) == TRUE

\* "if self.train": the strength is looked at on the training branch only
StrengthChecked(tr) == tr

\* assert self.spurious_correlation_strength >= 0.
StrengthSpecified(s) == s >= 0

\* torch.distributions.Bernoulli(probs=...): the constructor's argument check,
\* probs in the unit interval (a ValueError otherwise)
BernoulliProbsValid(s) == s >= 0 /\ s <= 10

\* outcomes of one draw of Bernoulli(probs = s / 10)
BernoulliOutcomes(s) == (IF s > 0 THEN {1} ELSE {}) \cup (IF s < 10 THEN {0} ELSE {})

\* [x for x in range(len(self.classes))]
OtherLabelsAll(label, k) == [n \in 1..k |-> n - 1]

\* [x for x in range(len(self.classes)) if x != label]
OtherLabels(label, k) == [n \in 1..(k - 1) |-> IF n - 1 < label THEN n - 1 ELSE n]

\* [label if spurious_or_not[i] else other_labels[i % len(other_labels)] for i in range(n)]
TrainBackgroundLabel(label, ind, k) ==
  LET other_labels == OtherLabels(label, k)
  IN  [n \in DOMAIN ind |->
         IF ind[n] = 1 THEN label
         ELSE other_labels[((n - 1) % Len(other_labels)) + 1]]

\* [(i // len(self.classes)) % len(self.classes) for i in range(n)]
TestBackgroundLabelDiv(n, k) == [m \in 1..n |-> ((m - 1) \div k) % k]

\* [i % len(self.classes) for i in range(n)]
TestBackgroundLabel(n, k) == [m \in 1..n |-> (m - 1) % k]

\* background_label[torch.randperm(len(background_label))]
Shuffle(s, perm) == [n \in DOMAIN s |-> s[perm[n]]]

\* the results of the shuffle over every permutation randperm can return
Shuffles(s) == {Shuffle(s, perm) : perm \in IndexPerms(Len(s))}

----------------------------------------------------------------------------
(* Actions of load_data *)

Fail(e) == pc' = "failed" /\ err' = e

\* lines 84-111: the source is read, the classes validated, the labels remapped,
\* the samples filtered and partitioned, and (train) the strength checked
LoadPrepare ==
  /\ comp = "load" /\ pc = "start"
  /\ UNCHANGED <<comp, classes, result, train, strength, difficulty, mnist,
                 spurious_or_not>>
  /\ UNCHANGED bgVars /\ UNCHANGED eiilVars
  /\ LET data == [n \in DOMAIN mnist |-> SourceImage(n - 1)]
     IN
     IF ~validate_classes(classes)
     THEN /\ Fail("AssertionError: classes")
          /\ labels' = mnist /\ X' = data
          /\ UNCHANGED <<kept, partition, spurious, grp, applied>>
     ELSE LET st == RemapFrom([labels |-> mnist, kept |-> <<>>], classes, 0)
              newX == Gather(data, st.kept)
              newLabels == Gather(st.labels, st.kept)
              part == PartitionBy(newLabels)
          IN  /\ labels' = newLabels /\ X' = newX /\ kept' = st.kept
              /\ partition' = part
              /\ spurious' = [n \in DOMAIN newX |-> -1]
              /\ applied' = [n \in DOMAIN newX |-> <<>>]
              /\ grp' = 1
              /\ IF StrengthChecked(train) /\ ~StrengthSpecified(strength)
                 THEN Fail("AssertionError: strength")
                 ELSE IF train /\ ~BernoulliProbsValid(strength)
                 THEN Fail("ValueError: probs")
                 ELSE /\ pc' = IF part.keys = <<>> THEN "done" ELSE "group"
                      /\ err' = err

\* lines 117-120 and 126-129, "for i, idx in enumerate(self.partition[label])" from
\* position m on: the sample gets its spurious class, a fresh background of that
\* colour is made (perms[m] is the random draw of that call) and composited
RECURSIVE PaintFrom(_, _, _, _, _)
PaintFrom(st, list, background_label, perms, m) ==
  IF m > Len(list) THEN st
  ELSE LET idx == list[m]
           sp == background_label[m]
           colors == init_colors(Len(classes))
           bg == ProbeBackground[difficulty][perms[m]][colors[sp + 1]]
       IN  PaintFrom([spurious |-> [st.spurious EXCEPT ![idx + 1] = sp],
                      applied |-> [st.applied EXCEPT ![idx + 1] = bg],
                      X |-> [st.X EXCEPT ![idx + 1] = Composite(bg, st.X[idx + 1])]],
                     list, background_label, perms, m + 1)

PaintGroup(background_label, perms) ==
  LET st == PaintFrom([spurious |-> spurious, applied |-> applied, X |-> X],
                      partition.lists[grp], background_label, perms, 1)
  IN  /\ spurious' = st.spurious /\ applied' = st.applied /\ X' = st.X
      /\ grp' = grp + 1
      /\ pc' = IF grp < Len(partition.keys) THEN "group" ELSE "done"

\* lines 112-120, one turn of "for label in self.partition.keys()" with train = True:
\* the Bernoulli sample of the group, its background labels (i % 0 raises when a
\* draw is 0 and there is no other class), the shuffle, the painting
AssignTrain ==
  /\ comp = "load" /\ pc = "group" /\ train
  /\ UNCHANGED <<comp, classes, result, train, strength, difficulty, mnist, labels,
                 kept, partition>>
  /\ UNCHANGED bgVars /\ UNCHANGED eiilVars
  /\ LET label == partition.keys[grp]
         n == Len(partition.lists[grp])
         k == Len(classes)
     IN  \E ind \in [1..n -> BernoulliOutcomes(strength)] :
           IF Len(OtherLabels(label, k)) = 0 /\ \E m \in 1..n : ind[m] = 0
           THEN /\ Fail("ZeroDivisionError")
                /\ UNCHANGED <<spurious_or_not, spurious, applied, X, grp>>
           ELSE \E background_label \in Shuffles(TrainBackgroundLabel(label, ind, k)) :
                \E perms \in [1..n -> PermChoices(difficulty)] :
                  /\ spurious_or_not' = Append(spurious_or_not, ind)
                  /\ PaintGroup(background_label, perms)
                  /\ err' = err

\* lines 123-129, one turn of "for label in self.partition.keys()" with train = False:
\* the cyclic background labels of the group, the shuffle, the painting
AssignTest ==
  /\ comp = "load" /\ pc = "group" /\ ~train
  /\ UNCHANGED <<comp, classes, result, train, strength, difficulty, mnist, labels,
                 kept, partition, spurious_or_not, err>>
  /\ UNCHANGED bgVars /\ UNCHANGED eiilVars
  /\ LET n == Len(partition.lists[grp])
     IN  \E background_label \in Shuffles(TestBackgroundLabel(n, Len(classes))) :
         \E perms \in [1..n -> PermChoices(difficulty)] :
           PaintGroup(background_label, perms)

----------------------------------------------------------------------------
(* Calls of the static methods *)

\* SpuCoMNIST.validate_classes(classes)
ValidateCall ==
  /\ comp = "validate" /\ pc = "start"
  /\ result' = validate_classes(classes)
  /\ pc' = "done"
  /\ UNCHANGED <<comp, err, classes, difficulty>>
  /\ UNCHANGED loadVars /\ UNCHANGED bgVars /\ UNCHANGED eiilVars

\* SpuCoMNIST.create_background(spurious_feature_difficulty, hex_code), whole canvas
CreateBackgroundCall ==
  /\ comp = "background" /\ pc = "start"
  /\ \E perm \in PermChoices(difficulty) :
       /\ mask' = MaskOf(difficulty, perm, Entries)
       /\ background' = create_background(difficulty, hex_code, perm, Entries)
  /\ pc' = "done"
  /\ UNCHANGED <<comp, err, classes, result, difficulty, hex_code>>
  /\ UNCHANGED loadVars /\ UNCHANGED eiilVars

----------------------------------------------------------------------------
(* EIIL.infer_groups *)

\* a float: a finite value (integer units) or NaN
Num(v) == [nan |-> FALSE, v |-> v]
NaN == [nan |-> TRUE, v |-> 0]

\* torch.sigmoid, in 1/1000; NaN stays NaN
Sigmoid(w) ==
  IF w.nan THEN NaN
  ELSE Num(CASE w.v <= -3 -> 47
             [] w.v = -2 -> 119
             [] w.v = -1 -> 269
             [] w.v = 0 -> 500
             [] w.v = 1 -> 731
             [] w.v = 2 -> 881
             [] w.v >= 3 -> 953)

\* x >= .5
AtLeastHalf(x) == ~x.nan /\ x.v >= Half

\* x > .5 (False for NaN)
GreaterThanHalf(x) == ~x.nan /\ x.v > Half

\* (env_w.sigmoid() > .5).int()
Harden(w) == [n \in DOMAIN w |-> IF GreaterThanHalf(Sigmoid(w[n])) THEN 1 ELSE 0]

\* group_labels[self.labels==1] += 2
Refine(gl, ls) ==
  [n \in DOMAIN gl |-> IF ls[n] = ReservedLabel THEN gl[n] + GroupShift ELSE gl[n]]

\* "Partition using group labels to get group partition"
GroupPartitionOf(gl) == PartitionFrom(gl, 0, EmptyPartition)

\* torch.randn: the initial weights tried
InitWeights == {-1, 0, 1}

\* the displacement one Adam step of size lr (one unit) gives a weight
AdamDeltas == {-1, 0, 1}

ELabelValues == {0, 1, 2}

\* lines 28-32: scale, the per-sample loss, env_w = torch.randn(N), the optimiser
EiilStart ==
  /\ comp = "eiil" /\ pc = "start"
  /\ \E w \in [DOMAIN elabels -> InitWeights] : env_w' = [n \in DOMAIN elabels |-> Num(w[n])]
  /\ step' = 0
  /\ pc' = "train"
  /\ UNCHANGED <<comp, err, classes, result, difficulty, elabels, finite, num_steps,
                 group_labels, group_partition>>
  /\ UNCHANGED loadVars /\ UNCHANGED bgVars

\* lines 35-48: one optimiser step.  The penalty gradient moves every weight by
\* at most one step size; with a non-finite loss every weight becomes NaN.
EiilStep ==
  /\ comp = "eiil" /\ pc = "train" /\ step < num_steps
  /\ IF finite
     THEN \E d \in [DOMAIN env_w -> AdamDeltas] :
            env_w' = [n \in DOMAIN env_w |-> Num(env_w[n].v + d[n])]
     ELSE env_w' = [n \in DOMAIN env_w |-> NaN]
  /\ step' = step + 1
  /\ UNCHANGED <<comp, pc, err, classes, result, difficulty, elabels, finite, num_steps,
                 group_labels, group_partition>>
  /\ UNCHANGED loadVars /\ UNCHANGED bgVars

\* lines 50-62: the hard assignment, the label-1 refinement, the partition
EiilFinish ==
  /\ comp = "eiil" /\ pc = "train" /\ step = num_steps
  /\ LET gl == Refine(Harden(env_w), elabels)
     IN  /\ group_labels' = gl
         /\ group_partition' = GroupPartitionOf(gl)
  /\ pc' = "done"
  /\ UNCHANGED <<comp, err, classes, result, difficulty, elabels, finite, num_steps,
                 step, env_w>>
  /\ UNCHANGED loadVars /\ UNCHANGED bgVars

----------------------------------------------------------------------------
(* The runs *)

IdleLoad ==
  /\ train = FALSE /\ strength = -10 /\ mnist = <<>> /\ labels = <<>> /\ X = <<>>
  /\ kept = <<>> /\ partition = EmptyPartition /\ spurious = <<>> /\ grp = 1
  /\ spurious_or_not = <<>> /\ applied = <<>>

IdleBackground == hex_code = <<0, 0, 0>> /\ mask = <<>> /\ background = <<>>

IdleEiil ==
  /\ elabels = <<>> /\ finite = TRUE /\ num_steps = 0 /\ step = 0 /\ env_w = <<>>
  /\ group_labels = <<>> /\ group_partition = EmptyPartition

InitValidate ==
  /\ comp = "validate"
  /\ \E m \in 0..MaxElems, n \in 0..MaxClasses :
       \E flat \in [1..m -> ClassValues], lens \in [1..n -> 0..m] :
         SumSeq(lens) = m /\ classes = ClassList(flat, lens)
  /\ difficulty = "MAGNITUDE_EASY"
  /\ IdleLoad /\ IdleBackground /\ IdleEiil

InitLoad ==
  /\ comp = "load" /\ classes \in LoadClassSpecs
  /\ difficulty \in LoadDifficulties
  /\ train \in BOOLEAN
  /\ strength \in IF train THEN Strengths ELSE TestStrengths
  /\ mnist \in SeqsUpTo(SourceLabels, MaxSamples)
  /\ labels = <<>> /\ X = <<>>
  /\ kept = <<>> /\ partition = EmptyPartition /\ spurious = <<>> /\ grp = 1
  /\ spurious_or_not = <<>> /\ applied = <<>>
  /\ IdleBackground /\ IdleEiil

InitBackground ==
  /\ comp = "background" /\ classes = <<>>
  /\ difficulty \in Difficulties
  /\ hex_code \in Range(init_colors(3))
  /\ mask = <<>> /\ background = <<>>
  /\ IdleLoad /\ IdleEiil

InitEiil ==
  /\ comp = "eiil" /\ classes = <<>>
  /\ difficulty = "MAGNITUDE_EASY"
  /\ elabels \in SeqsUpTo(ELabelValues, MaxN)
  /\ finite \in BOOLEAN /\ num_steps \in 0..MaxSteps
  /\ step = 0 /\ env_w = <<>> /\ group_labels = <<>> /\ group_partition = EmptyPartition
  /\ IdleLoad /\ IdleBackground

Init ==
  /\ pc = "start" /\ err = "none" /\ result = "none"
  /\ (InitValidate \/ InitLoad \/ InitBackground \/ InitEiil)

Next ==
  \/ ValidateCall
  \/ LoadPrepare
  \/ AssignTrain
  \/ AssignTest
  \/ CreateBackgroundCall
  \/ EiilStart
  \/ EiilStep
  \/ EiilFinish

Spec == Init /\ [][Next]_vars

----------------------------------------------------------------------------
(* Properties *)

Abs(x) == IF x < 0 THEN -x ELSE x

PairwiseDisjoint(cls) ==
  \A a, b \in DOMAIN cls : a # b => Range(cls[a]) \cap Range(cls[b]) = {}

AllInRange(cls) == \A a \in DOMAIN cls : \A x \in Range(cls[a]) : x \in 0..9

\* load_data got past the assertion on the classes
Prepared == comp = "load" /\ pc # "start" /\ err # "AssertionError: classes"

\* members of group g (a position in partition.keys) whose spurious class is a
GroupCount(g, a) ==
  Cardinality({m \in DOMAIN partition.lists[g] : spurious[partition.lists[g][m] + 1] = a})

\* the groups whose turn of the loop over partition.keys() is over
Finished == 1..(grp - 1)

\* C1: validate_classes returns true exactly when the classes are pairwise disjoint
\* and every element is in 0..9, and load_data's assertion fails exactly otherwise.
C1_ValidateIff ==
  /\ (comp = "validate" /\ pc = "done") =>
        result = (PairwiseDisjoint(classes) /\ AllInRange(classes))
  /\ (comp = "load" /\ pc # "start") =>
        ((err = "AssertionError: classes") <=>
           ~(PairwiseDisjoint(classes) /\ AllInRange(classes)))

C1_Witness ==
  /\ comp = "validate" /\ pc = "done" /\ result = TRUE
  /\ Len(classes) = 3 /\ \A a \in DOMAIN classes : classes[a] # <<>>

\* C2: after the remapping the surviving samples are exactly the samples whose raw
\* label is in some latent class, once each and in their original order, each with
\* the index of the class holding its raw label and with its own image.
C2_RemapStableFilter ==
  Prepared =>
    /\ Len(labels) = Len(kept) /\ Len(X) = Len(kept)
    /\ \A a, b \in DOMAIN kept : a < b => kept[a] < kept[b]
    /\ Range(kept) = {i \in 0..(Len(mnist) - 1) :
                        \E c \in DOMAIN classes : mnist[i + 1] \in Range(classes[c])}
    /\ \A n \in DOMAIN labels :
         /\ labels[n] \in 0..(Len(classes) - 1)
         /\ mnist[kept[n] + 1] \in Range(classes[labels[n] + 1])
         /\ spurious[n] = -1 => X[n] = SourceImage(kept[n])

C2_Witness ==
  /\ Prepared /\ Len(mnist) = 3 /\ Len(kept) = 2 /\ kept[1] # 0
  /\ \E n \in DOMAIN labels : labels[n] # mnist[kept[n] + 1]

\* part partitions 0..N-1: its keys are distinct, its lists hold only indices
\* below N, and every index is at exactly one place of exactly one list
ExactPartition(part, N) ==
  /\ Len(part.keys) = Len(part.lists)
  /\ \A g, h \in DOMAIN part.keys : g # h => part.keys[g] # part.keys[h]
  /\ \A g \in DOMAIN part.lists : Range(part.lists[g]) \subseteq 0..(N - 1)
  /\ \A i \in 0..(N - 1) :
       Cardinality({gm \in UNION {{<<g, m>> : m \in DOMAIN part.lists[g]} :
                                    g \in DOMAIN part.lists} :
                      part.lists[gm[1]][gm[2]] = i}) = 1

\* C3: the builder's true-label partition partitions the surviving indices exactly,
\* and so does the partition infer_groups returns for its N samples; each list
\* holds the indices carrying its key.
C3_ExactPartitions ==
  /\ Prepared =>
       /\ ExactPartition(partition, Len(labels))
       /\ \A g \in DOMAIN partition.lists : \A m \in DOMAIN partition.lists[g] :
            labels[partition.lists[g][m] + 1] = partition.keys[g]
  /\ (comp = "eiil" /\ pc = "done") =>
       /\ ExactPartition(group_partition, Len(elabels))
       /\ \A g \in DOMAIN group_partition.lists :
            \A m \in DOMAIN group_partition.lists[g] :
              group_labels[group_partition.lists[g][m] + 1] = group_partition.keys[g]

C3_Witness ==
  /\ Prepared /\ Len(labels) = 3 /\ Len(partition.keys) = 2
  /\ \E g \in DOMAIN partition.lists : partition.lists[g] = <<0, 2>>

\* C4: with train = False, in every group that has been assigned, the numbers of
\* members given each latent class as spurious class differ by at most one,
\* whatever the strength and the shuffle.
C4_TestBalanced ==
  (Prepared /\ ~train) =>
    \A g \in Finished : \A a, b \in 0..(Len(classes) - 1) :
      Abs(GroupCount(g, a) - GroupCount(g, b)) <= 1

C4_Witness ==
  /\ Prepared /\ ~train /\ pc = "done" /\ strength = 15 /\ Len(classes) = 2
  /\ \E g \in Finished : Len(partition.lists[g]) = 3 /\ GroupCount(g, 1) = 1

\* C5: with train = True, in every group that has been assigned, the members whose
\* spurious class is the group's label are as many as the indicator draws equal
\* to 1; with strength 1.0 every member's spurious class is its label.
C5_TrainAlignedCount ==
  (Prepared /\ train) =>
    /\ Len(spurious_or_not) = grp - 1
    /\ \A g \in Finished :
         /\ GroupCount(g, partition.keys[g]) = SumSeq(spurious_or_not[g])
         /\ strength = 10 => GroupCount(g, partition.keys[g]) = Len(partition.lists[g])

C5_Witness ==
  /\ Prepared /\ train /\ pc = "done" /\ Len(classes) = 3
  /\ \E g \in Finished :
       /\ Len(partition.lists[g]) = 3
       /\ SumSeq(spurious_or_not[g]) = 1
       /\ GroupCount(g, partition.keys[g]) = 1

CanvasPoints == (0..(Canvas - 1)) \X (0..(Canvas - 1))

\* the points where the mask is 1 on channel 0
Unmasked == {p \in CanvasPoints : mask[<<0, p[1], p[2]>>] = 1}

Corner(g) == (0..(g - 1)) \X (0..(g - 1))

\* C7: the mask create_background applies is 0 or 1 everywhere, the same on the
\* three channels, with 16, 4 and 49 ones on the fixed corners, 49 ones inside the
\* 14x14 corner and 49 ones on the canvas for the random difficulties; the
\* returned background is the colour where the mask is 1 and exactly 0 elsewhere,
\* and the colour everywhere for MAGNITUDE_EASY.
C7_MaskGeometry ==
  (comp = "background" /\ pc = "done") =>
    IF difficulty = "MAGNITUDE_EASY"
    THEN \A e \in Entries : background[e] = hex_code[e[1] + 1]
    ELSE /\ \A e \in Entries : mask[e] \in {0, 1} /\ mask[e] = mask[<<0, e[2], e[3]>>]
         /\ \A e \in Entries :
              background[e] = IF mask[e] = 1 THEN hex_code[e[1] + 1] ELSE 0
         /\ difficulty = "MAGNITUDE_MEDIUM" => Unmasked = Corner(4)
         /\ difficulty = "MAGNITUDE_HARD" => Unmasked = Corner(2)
         /\ difficulty = "VARIANCE_EASY" => Unmasked = Corner(7)
         /\ difficulty = "VARIANCE_MEDIUM" =>
              Cardinality(Unmasked) = 49 /\ Unmasked \subseteq Corner(14)
         /\ difficulty = "VARIANCE_HARD" => Cardinality(Unmasked) = 49
         /\ Cardinality(Unmasked) =
              CASE difficulty = "MAGNITUDE_MEDIUM" -> 16
                [] difficulty = "MAGNITUDE_HARD" -> 4
                [] OTHER -> 49

C7_Witness ==
  /\ comp = "background" /\ pc = "done" /\ difficulty = "VARIANCE_HARD"
  /\ hex_code = <<0, 255, 0>>
  /\ mask[<<0, 1, 21>>] = 1 /\ mask[<<0, 0, 0>>] = 0
  /\ background[<<1, 1, 21>>] = 255

\* C8: with train = True, in every group that has been assigned, the numbers of
\* non-aligned members given each of the other latent classes differ by at most one.
C8_NonAlignedBalanced ==
  (Prepared /\ train) =>
    \A g \in Finished :
      \A a, b \in (0..(Len(classes) - 1)) \ {partition.keys[g]} :
        Abs(GroupCount(g, a) - GroupCount(g, b)) <= 1

\* C9: compositing leaves every non-zero entry of the image as it was and gives
\* every zero entry the value of the masked background there; an image with no
\* zero entry is unchanged.
C9_CompositeFrame ==
  Prepared =>
    \A n \in DOMAIN X : spurious[n] # -1 =>
      LET x0 == SourceImage(kept[n])
      IN  /\ \A e \in Probes :
                /\ x0[e] # 0 => X[n][e] = x0[e]
                /\ x0[e] = 0 => X[n][e] = applied[n][e]
                /\ applied[n][e] \in {0, init_colors(Len(classes))[spurious[n] + 1][e[1] + 1]}
          /\ (\A e \in Probes : x0[e] # 0) => X[n] = x0

C9_Witness ==
  /\ Prepared /\ pc = "done" /\ Len(X) = 3
  /\ \A n \in DOMAIN X : spurious[n] # -1
  /\ \E n \in DOMAIN X : \A e \in Probes : SourceImage(kept[n])[e] # 0
  /\ \E n \in DOMAIN X : \E e, f \in Probes :
       /\ SourceImage(kept[n])[e] = 0 /\ X[n][e] = 255
       /\ SourceImage(kept[n])[f] = 128 /\ X[n][f] = 128 /\ applied[n][f] = 255

\* C10: the group id of sample i is e + 2 * [labels[i] = 1], with e = 1 when
\* sigmoid(env_w[i]) > 0.5 after the optimisation steps and 0 otherwise; ids are
\* in 0..3, label 1 only in groups 2 and 3, any other label only in groups 0 and 1.
C10_GroupIds ==
  (comp = "eiil" /\ pc = "done") =>
    /\ step = num_steps
    /\ \A n \in DOMAIN elabels :
         LET sg == Sigmoid(env_w[n])
             e == IF ~sg.nan /\ sg.v > 500 THEN 1 ELSE 0
         IN  group_labels[n] = e + 2 * (IF elabels[n] = 1 THEN 1 ELSE 0)
    /\ \A g \in DOMAIN group_partition.keys :
         /\ group_partition.keys[g] \in 0..3
         /\ \A m \in DOMAIN group_partition.lists[g] :
              LET l == elabels[group_partition.lists[g][m] + 1]
              IN  IF l = 1 THEN group_partition.keys[g] \in {2, 3}
                  ELSE group_partition.keys[g] \in {0, 1}

C10_Witness ==
  /\ comp = "eiil" /\ pc = "done" /\ num_steps = 1 /\ step = 1
  /\ elabels = <<1, 2>> /\ env_w[1] = Num(2) /\ env_w[2] = Num(0)
  /\ group_partition = [keys |-> <<3, 0>>, lists |-> <<<<0>>, <<1>>>>]

====
